---- MODULE Spec2Model ----
(***************************************************************************)
(* A model of the octo crate: the recursive OctreeNode<T> (src/src/node.rs) *)
(* and its owning handle Octree<T> (src/src/octree.rs).                     *)
(*                                                                          *)
(* Option<X> is modelled as a sequence of length 0 (None) or 1 (Some(x)).   *)
(* A node is a record with the five fields of struct OctreeNode; its        *)
(* children field is a sequence of 8 Option<OctreeNode>.  Every recursive   *)
(* method of the node is a RECURSIVE operator that returns what the method  *)
(* leaves behind in *self (and its return value where it has one).          *)
(***************************************************************************)
EXTENDS Integers, Sequences, FiniteSets, TLC

(***************************************************************************)
(* Bounds of the model.                                                     *)
(***************************************************************************)
\* construction is tried for every dimension 0..MaxDim
MaxDim == 17
\* number of distinct values of T
NumValues == 2
\* number of caller-chosen operations beside the scripted fill
MaxOps == 1
\* number of voxels the scripted fill may write (64 cover one edge-4 region)
MaxFill == 64

Values == 1..NumValues

(***************************************************************************)
(* Option<T>                                                                *)
(***************************************************************************)
None == << >>
Some(x) == << x >>
is_some(o) == o # None
unwrap(o) == o[1]

\* the element of a singleton set: The({ e(x) : x \in {v} }) is e(v), with v
\* evaluated once
The(S) == CHOOSE x \in S : TRUE

(***************************************************************************)
(* NodeLoc (node.rs 5-39): location: [u16; 3], here <<x, y, z>>.            *)
(***************************************************************************)
U16 == 65536

NodeLoc_new(coords) == << coords[1], coords[2], coords[3] >>

\* (sub_axis_one_more: the subtraction with delta + 1 in place of delta)
\* sub_x / sub_y / sub_z: location[axis] -= delta on u16.  A subtraction
\* below zero is an arithmetic overflow; the wrapped value is what a build
\* without overflow checks leaves behind.
sub_axis_one_more(loc, axis, delta) ==
    [loc EXCEPT ![axis] = (loc[axis] - (delta + 1) + U16) % U16]

sub_axis(loc, axis, delta) ==
    [loc EXCEPT ![axis] = (loc[axis] - delta + U16) % U16]

(***************************************************************************)
(* enum ChildLoc (node.rs 44-53)                                            *)
(***************************************************************************)
BaseRearLeft == 0
BaseRearRight == 1
BaseFrontRight == 2
BaseFrontLeft == 3
TopRearLeft == 4
TopRearRight == 5
TopFrontRight == 6
TopFrontLeft == 7

(***************************************************************************)
(* OctreeNode<T> (node.rs 57-63)                                            *)
(***************************************************************************)
no_children == [i \in 1..8 |-> None]

OctreeNode_new(curr_dimension, data) ==
    [dimension  |-> curr_dimension \div 2,
     leaf       |-> TRUE,
     simplified |-> FALSE,
     children   |-> no_children,
     data       |-> Some(data)]

construct_root(dimension) ==
    [dimension  |-> dimension,
     leaf       |-> TRUE,
     simplified |-> FALSE,
     children   |-> no_children,
     data       |-> None]

\* fn make_leaf(&mut self, state)
make_leaf(self, state) ==
    IF state
    THEN [self EXCEPT !.leaf = TRUE, !.children = no_children]
    ELSE [self EXCEPT !.leaf = FALSE]

\* get_child_loc with the octants numbered 4 * topZ + 2 * topY + topX
get_child_loc_zyx(self, loc) ==
    LET comparator == self.dimension \div 2
        lz == IF loc[3] < comparator THEN loc ELSE sub_axis(loc, 3, comparator)
        ly == IF lz[2] < comparator THEN lz ELSE sub_axis(lz, 2, comparator)
        lx == IF ly[1] < comparator THEN ly ELSE sub_axis(ly, 1, comparator)
    IN  [child |-> 4 * (IF loc[3] < comparator THEN 0 ELSE 1)
                   + 2 * (IF loc[2] < comparator THEN 0 ELSE 1)
                   + (IF loc[1] < comparator THEN 0 ELSE 1),
         loc   |-> lx]

\* fn get_child_loc(&self, loc: &mut NodeLoc) -> ChildLoc
\* returns the octant and the NodeLoc as the call leaves it
get_child_loc(self, loc) ==
    LET comparator == self.dimension \div 2
        lz == IF loc[3] < comparator THEN loc ELSE sub_axis(loc, 3, comparator)
        ly == IF lz[2] < comparator THEN lz ELSE sub_axis(lz, 2, comparator)
        lx == IF ly[1] < comparator THEN ly ELSE sub_axis(ly, 1, comparator)
        child ==
            IF loc[3] < comparator
            THEN IF loc[2] < comparator
                 THEN IF loc[1] < comparator THEN BaseRearLeft ELSE BaseRearRight
                 ELSE IF loc[1] < comparator THEN BaseFrontLeft ELSE BaseFrontRight
            ELSE IF loc[2] < comparator
                 THEN IF loc[1] < comparator THEN TopRearLeft ELSE TopRearRight
                 ELSE IF loc[1] < comparator THEN TopFrontLeft ELSE TopFrontRight
    IN  [child |-> child, loc |-> lx]

\* fn try_simplify(&mut self, data)
try_simplify(self, data) ==
    The({ IF \A i \in 1..8 :
                 /\ is_some(s.children[i])
                 /\ is_some(unwrap(s.children[i]).data)
                 /\ unwrap(unwrap(s.children[i]).data) = data
          THEN [make_leaf([s EXCEPT !.data = Some(data)], TRUE) EXCEPT !.simplified = TRUE]
          ELSE s
          : s \in {self} })

\* fn try_desimplify(&mut self, node, child_loc); self.data.unwrap() panics on
\* None.  slot is child_loc + 1.
try_desimplify_panics(self) == self.data = None

try_desimplify(self, node, slot) ==
    [self EXCEPT
        !.children = [i \in 1..8 |->
                         IF i # slot
                         THEN Some(OctreeNode_new(self.dimension, unwrap(self.data)))
                         ELSE Some(node)],
        !.leaf = FALSE,
        !.simplified = FALSE,
        !.data = None]

(***************************************************************************)
(* Outcome of a call that may not return: ok with the node it leaves, or    *)
(* aborted ("panic": unwrap on None; "overflow": unbounded recursion).      *)
(***************************************************************************)
Done(n) == [ok |-> TRUE, node |-> n, why |-> "returned"]
Aborted(n, why) == [ok |-> FALSE, node |-> n, why |-> why]

\* fn insert(&mut self, loc: &mut NodeLoc, data)
\*   g      get_child_loc(loc): the octant and loc as it is left
\*   node   the child taken out of its slot, or a new one
\*   taken  self with that slot left None by take()
\*   self1  self after `if self.leaf && !self.simplified { .. }`
\*   sub    node after make_leaf(true) / node.insert(loc, data)
RECURSIVE OctreeNode_insert(_, _, _)
OctreeNode_insert(self, loc, data) ==
    IF self.dimension = 0
    THEN \* a node of dimension 0 is never 2 and creates a child of dimension 0:
         \* the recursion does not end
         Aborted(self, "overflow")
    ELSE
    The({ The({ The({
        IF ~sub.ok THEN Aborted(self1, sub.why)
        ELSE IF self1.simplified /\ self1.data # Some(data)
        THEN IF try_desimplify_panics(self1)
             THEN Aborted(self1, "panic")
             ELSE Done(try_simplify(try_desimplify(self1, sub.node, g.child + 1), data))
        ELSE Done(try_simplify([self1 EXCEPT !.children[g.child + 1] = Some(sub.node)], data))
        : sub \in { IF self1.dimension = 2
                    THEN Done(make_leaf(node, TRUE))
                    ELSE OctreeNode_insert(node, g.loc, data) } })
        : node \in { IF is_some(self.children[g.child + 1]) /\ ~self.simplified
                     THEN unwrap(self.children[g.child + 1])
                     ELSE OctreeNode_new(self.dimension, data) },
          self1 \in { The({ IF taken.leaf /\ ~taken.simplified
                            THEN [make_leaf(taken, FALSE) EXCEPT !.data = None]
                            ELSE taken
                            : taken \in { IF is_some(self.children[g.child + 1])
                                             /\ ~self.simplified
                                          THEN [self EXCEPT !.children[g.child + 1] = None]
                                          ELSE self } }) } })
        : g \in { get_child_loc(self, loc) } })

\* fn at(&self, loc: &mut NodeLoc) -> Option<T>
RECURSIVE OctreeNode_at(_, _)
OctreeNode_at(self, loc) ==
    The({ IF self.children[g.child + 1] = None THEN None
          ELSE IF unwrap(self.children[g.child + 1]).leaf
          THEN unwrap(self.children[g.child + 1]).data
          ELSE OctreeNode_at(unwrap(self.children[g.child + 1]), g.loc)
          : g \in { get_child_loc(self, loc) } })

\* take with `data.take()` replaced by a copy of data: the value is returned
\* and stays in the leaf
RECURSIVE OctreeNode_take_copy(_, _)
OctreeNode_take_copy(self, loc) ==
    The({ IF child = None THEN [node |-> self, ret |-> None]
          ELSE IF unwrap(child).leaf
          THEN [node |-> self, ret |-> unwrap(child).data]
          ELSE The({ [node |-> [self EXCEPT !.children[g.child + 1] = Some(r.node)],
                      ret  |-> r.ret]
                     : r \in { OctreeNode_take_copy(unwrap(child), g.loc) } })
          : g \in { get_child_loc(self, loc) },
            child \in { self.children[get_child_loc(self, loc).child + 1] } })

\* fn take(&mut self, loc: &mut NodeLoc) -> Option<T>
\* returns self as the call leaves it and the value returned
RECURSIVE OctreeNode_take(_, _)
OctreeNode_take(self, loc) ==
    The({ IF child = None THEN [node |-> self, ret |-> None]
          ELSE IF unwrap(child).leaf
          THEN [node |-> [self EXCEPT !.children[g.child + 1] =
                                          Some([unwrap(child) EXCEPT !.data = None])],
                ret  |-> unwrap(child).data]
          ELSE The({ [node |-> [self EXCEPT !.children[g.child + 1] = Some(r.node)],
                      ret  |-> r.ret]
                     : r \in { OctreeNode_take(unwrap(child), g.loc) } })
          : g \in { get_child_loc(self, loc) },
            child \in { self.children[get_child_loc(self, loc).child + 1] } })

\* fn try_simplify_none(&mut self)
try_simplify_none(self) ==
    The({ IF \A i \in 1..8 :
                 is_some(s.children[i]) => unwrap(s.children[i]).data = None
          THEN [make_leaf([s EXCEPT !.data = None], TRUE) EXCEPT
                   !.simplified = TRUE, !.children = no_children]
          ELSE s
          : s \in {self} })

\* insert_none without its call of take
OctreeNode_insert_none_no_take(self, loc) ==
    try_simplify_none(self)

\* fn insert_none(&mut self, loc: &mut NodeLoc)
OctreeNode_insert_none(self, loc) ==
    try_simplify_none(OctreeNode_take(self, loc).node)

\* fn node_as_ref(&self, loc: &mut NodeLoc) -> Option<&OctreeNode<T>>
RECURSIVE OctreeNode_node_as_ref(_, _)
OctreeNode_node_as_ref(self, loc) ==
    The({ IF self.children[g.child + 1] = None THEN None
          ELSE IF unwrap(self.children[g.child + 1]).leaf
          THEN self.children[g.child + 1]
          ELSE OctreeNode_node_as_ref(unwrap(self.children[g.child + 1]), g.loc)
          : g \in { get_child_loc(self, loc) } })

\* the nodes insert(loc, data) visits from self down, by their dimension: one
\* entry per nested call of insert.  At a node of dimension 0 the calls go on
\* without end; the path is cut there.
RECURSIVE OctreeNode_insert_path(_, _, _)
OctreeNode_insert_path(self, loc, data) ==
    IF self.dimension = 0
    THEN << 0 >>
    ELSE The({ << self.dimension >> \o
               (IF self.dimension = 2
                THEN << >>
                ELSE OctreeNode_insert_path(node, g.loc, data))
               : g \in { get_child_loc(self, loc) },
                 node \in { IF is_some(self.children[get_child_loc(self, loc).child + 1])
                               /\ ~self.simplified
                            THEN unwrap(self.children[get_child_loc(self, loc).child + 1])
                            ELSE OctreeNode_new(self.dimension, data) } })

\* the nodes at(loc) visits from self down, by their dimension
RECURSIVE OctreeNode_at_path(_, _)
OctreeNode_at_path(self, loc) ==
    The({ << self.dimension >> \o
          (IF self.children[g.child + 1] = None THEN << >>
           ELSE IF unwrap(self.children[g.child + 1]).leaf THEN << >>
           ELSE OctreeNode_at_path(unwrap(self.children[g.child + 1]), g.loc))
          : g \in { get_child_loc(self, loc) } })

(***************************************************************************)
(* Octree<T> (octree.rs 9-13): dimension, max_depth, root.                  *)
(***************************************************************************)
U8_MAX == 255

\* f64::from(dimension).sqrt(): exact on u16; floor and fract taken apart
sqrt_floor(dimension) ==
    CHOOSE k \in 0..U8_MAX + 1 : k * k <= dimension /\ dimension < (k + 1) * (k + 1)

sqrt_fract_is_zero(dimension) ==
    sqrt_floor(dimension) * sqrt_floor(dimension) = dimension

\* `depth as u8` saturates at u8::MAX
depth_as_u8(dimension) ==
    IF sqrt_floor(dimension) > U8_MAX THEN U8_MAX ELSE sqrt_floor(dimension)

\* pub fn new(dimension: u16) -> Option<Octree<T>>
Octree_new(dimension) ==
    IF sqrt_fract_is_zero(dimension) /\ depth_as_u8(dimension) < U8_MAX
    THEN Some([dimension |-> dimension,
               max_depth |-> depth_as_u8(dimension),
               root      |-> construct_root(dimension)])
    ELSE None

\* fn loc_from_array(&self, array: [u16; 3]) -> NodeLoc
loc_from_array(array) == NodeLoc_new(array)

\* fn contains_loc(&self, loc: &NodeLoc) -> bool
contains_loc(tree, loc) ==
    loc[1] < tree.dimension /\ loc[2] < tree.dimension /\ loc[3] < tree.dimension

\* pub fn insert(&mut self, loc: [u16; 3], data: T) -> Result<(), String>
\* res is "Ok", "Err" (not bounded), or the reason the call did not return
Octree_insert(tree, loc, data) ==
    IF contains_loc(tree, loc_from_array(loc))
    THEN The({ IF r.ok
               THEN [tree |-> [tree EXCEPT !.root = r.node], res |-> "Ok"]
               ELSE [tree |-> tree, res |-> r.why]
               : r \in { OctreeNode_insert(tree.root, loc_from_array(loc), data) } })
    ELSE [tree |-> tree, res |-> "Err"]

\* pub fn at(&self, loc: [u16; 3]) -> Option<T>
Octree_at(tree, loc) == OctreeNode_at(tree.root, loc_from_array(loc))

\* pub fn node_as_ref(&self, loc: [u16; 3]) -> Option<&OctreeNode<T>>
Octree_node_as_ref(tree, loc) == OctreeNode_node_as_ref(tree.root, loc_from_array(loc))

\* Octree::take, as lib.rs test_take calls it: the handle hands the location
\* to the root node like at does
Octree_take(tree, loc) ==
    The({ [tree |-> [tree EXCEPT !.root = r.node], ret |-> r.ret]
          : r \in { OctreeNode_take(tree.root, loc_from_array(loc)) } })

\* Octree::insert_none, as lib.rs test_insert_none calls it
Octree_insert_none(tree, loc) ==
    [tree EXCEPT !.root = OctreeNode_insert_none(tree.root, loc_from_array(loc))]

(***************************************************************************)
(* OctreeIterator<T> (octree.rs 181-184): node_stack, value_stack.          *)
(***************************************************************************)
\* `for child in curr_node.children() { if let Some(child_node) = child ..`
\* the children that are present, in slot order
present_children(curr_node) ==
    The({ [i \in 1..Len(s) |-> unwrap(s[i])]
          : s \in { SelectSeq(curr_node.children, LAMBDA o : is_some(o)) } })

\* dfs with the loop over the children stopped after the first one present
RECURSIVE OctreeIterator_dfs_first_child(_)
OctreeIterator_dfs_first_child(self) ==
    IF self.node_stack = << >>
    THEN self
    ELSE The({ OctreeIterator_dfs_first_child(
                 [node_stack  |-> SubSeq(it.node_stack, 1, Len(it.node_stack) - 1)
                                  \o SelectSeq(present_children(curr_node),
                                               LAMBDA n : n = present_children(curr_node)[1]),
                  value_stack |-> IF is_some(curr_node.data)
                                  THEN Append(it.value_stack, unwrap(curr_node.data))
                                  ELSE it.value_stack])
               : it \in { self },
                 curr_node \in { self.node_stack[Len(self.node_stack)] } })

\* fn dfs(&mut self): returns the iterator as the loop leaves it
RECURSIVE OctreeIterator_dfs(_)
OctreeIterator_dfs(self) ==
    IF self.node_stack = << >>
    THEN self
    ELSE The({ OctreeIterator_dfs(
                 [node_stack  |-> SubSeq(it.node_stack, 1, Len(it.node_stack) - 1)
                                  \o present_children(curr_node),
                  value_stack |-> IF is_some(curr_node.data)
                                  THEN Append(it.value_stack, unwrap(curr_node.data))
                                  ELSE it.value_stack])
               : it \in { self },
                 curr_node \in { self.node_stack[Len(self.node_stack)] } })

\* fn new(octree: Octree<T>) -> OctreeIterator<T>
OctreeIterator_new(octree) ==
    OctreeIterator_dfs([node_stack |-> << octree.root >>, value_stack |-> << >>])

\* fn new_from_ref(octree: &Octree<T>) -> OctreeIterator<T>
OctreeIterator_new_from_ref(octree) ==
    OctreeIterator_dfs([node_stack |-> << octree.root >>, value_stack |-> << >>])

\* next with the value taken from the bottom of value_stack
OctreeIterator_next_bottom(self) ==
    IF self.value_stack = << >>
    THEN [iter |-> self, ret |-> None]
    ELSE [iter |-> [self EXCEPT !.value_stack = Tail(self.value_stack)],
          ret  |-> Some(Head(self.value_stack))]

\* fn next(&mut self) -> Option<T>: value_stack.pop()
OctreeIterator_next(self) ==
    IF self.value_stack = << >>
    THEN [iter |-> self, ret |-> None]
    ELSE [iter |-> [self EXCEPT !.value_stack =
                        SubSeq(self.value_stack, 1, Len(self.value_stack) - 1)],
          ret  |-> Some(self.value_stack[Len(self.value_stack)])]

\* the values a caller gets by calling next until it returns None
RECURSIVE yielded(_)
yielded(iter) ==
    The({ IF n.ret = None THEN << >> ELSE << unwrap(n.ret) >> \o yielded(n.iter)
          : n \in { OctreeIterator_next(iter) } })

\* impl IntoIterator for Octree<T>: into_iter(self)
Octree_into_iter(tree) == OctreeIterator_new(tree)

\* pub fn iter(&mut self) -> OctreeIterator<T>
Octree_iter(tree) == OctreeIterator_new_from_ref(tree)

(***************************************************************************)
(* The callers' inputs.                                                     *)
(***************************************************************************)
\* The scripted fill writes FillValue over the edge-4 region at the origin,
\* voxel after voxel, one edge-2 octant after the other.
FillValue == CHOOSE v \in Values : TRUE

FillLoc(k) ==
    LET r == k \div 8
        j == k % 8
    IN  << 2 * (r % 2) + (j % 2),
           2 * ((r \div 2) % 2) + ((j \div 2) % 2),
           2 * (r \div 4) + (j \div 4) >>

\* the caller interrupts the fill inside the first octant or between octants
FillPause(k) == k <= 8 \/ k % 8 = 0

\* locations of the caller-chosen operations: two voxels of one edge-2 region,
\* a voxel of another edge-2 region of the same edge-4 region, and a location
\* outside a tree of dimension 4
FreeLocs == { <<0, 0, 0>>, <<1, 1, 1>>, <<3, 3, 3>>, <<5, 0, 0>> }

\* further locations the properties ask about: outside a tree of dimension 16
ExtraLocs == { <<16, 0, 0>>, <<0, 17, 3>> }

\* every location the fill can write (and the 8 after them), and the others
AllLocs ==
    FreeLocs \cup ExtraLocs \cup { FillLoc(k) : k \in 0..(MaxFill + 7) }

\* the locations the costlier properties ask about: the caller's, those
\* outside the tree, and voxels of the first, second, fifth and last octant
\* of the filled region and of the region next to it
ProbeLocs ==
    FreeLocs \cup ExtraLocs \cup { FillLoc(k) : k \in {1, 8, 9, 32, 62, 64} }

Region(c, edge) ==
    { d \in AllLocs : \A a \in 1..3 : d[a] \div edge = c[a] \div edge }

(***************************************************************************)
(* State.                                                                   *)
(*   octree   Option<Octree<T>>: what Octree::new returned                  *)
(*   aborted  the last call did not return (panic or stack overflow)        *)
(*   last     the last call: operation, arguments and what it returned      *)
(*   ops      number of caller-chosen operations so far                     *)
(*   filled   number of scripted fill inserts so far                        *)
(*   sealed   a caller-chosen operation has followed the fill               *)
(*   written  per location, the value of the last successful insert there   *)
(*   removed  a take or insert_none has been called                         *)
(***************************************************************************)
VARIABLES octree, aborted, last, ops, filled, sealed, written, removed

vars == << octree, aborted, last, ops, filled, sealed, written, removed >>

Call(op, loc, data, ret, view, res) ==
    [op |-> op, loc |-> loc, data |-> data, ret |-> ret, view |-> view, res |-> res]

NodeView(n) == [dimension |-> n.dimension, leaf |-> n.leaf, data |-> n.data]

Init ==
    /\ \E dimension \in 0..MaxDim :
          /\ octree = Octree_new(dimension)
          /\ last = Call("new", << dimension, 0, 0 >>, None, None, None,
                         IF Octree_new(dimension) = None THEN "Err" ELSE "Ok")
    /\ aborted = FALSE
    /\ ops = 0
    /\ filled = 0
    /\ sealed = FALSE
    /\ written = [c \in AllLocs |-> None]
    /\ removed = FALSE

Live == octree # None /\ ~aborted

DoInsert(loc, data) ==
    \E r \in { Octree_insert(unwrap(octree), loc, data) } :
        /\ octree' = Some(r.tree)
        /\ aborted' = (r.res \notin {"Ok", "Err"})
        /\ last' = Call("insert", loc, Some(data), None, None, r.res)
        /\ written' = IF r.res = "Ok" THEN [written EXCEPT ![loc] = Some(data)] ELSE written
        /\ UNCHANGED removed

Fill ==
    /\ Live
    /\ ~sealed
    /\ filled < MaxFill
    /\ DoInsert(FillLoc(filled), FillValue)
    /\ filled' = filled + 1
    /\ UNCHANGED << ops, sealed >>

\* a caller-chosen operation ends the fill once the fill has begun
Chosen ==
    /\ Live
    /\ ops < MaxOps
    /\ FillPause(filled)
    /\ ops' = ops + 1
    /\ sealed' = (filled > 0)
    /\ UNCHANGED filled

Insert(loc, data) ==
    /\ Chosen
    /\ DoInsert(loc, data)

At(loc) ==
    /\ Chosen
    /\ last' = Call("at", loc, None, Octree_at(unwrap(octree), loc), None, "Ok")
    /\ UNCHANGED << octree, aborted, written, removed >>

NodeAsRef(loc) ==
    /\ Chosen
    /\ \E r \in { Octree_node_as_ref(unwrap(octree), loc) } :
           last' = Call("node_as_ref", loc, None, None,
                        IF r = None THEN None ELSE Some(NodeView(unwrap(r))), "Ok")
    /\ UNCHANGED << octree, aborted, written, removed >>

Take(loc) ==
    /\ Chosen
    /\ \E r \in { Octree_take(unwrap(octree), loc) } :
           /\ octree' = Some(r.tree)
           /\ last' = Call("take", loc, None, r.ret, None, "Ok")
    /\ removed' = TRUE
    /\ UNCHANGED << aborted, written >>

InsertNone(loc) ==
    /\ Chosen
    /\ octree' = Some(Octree_insert_none(unwrap(octree), loc))
    /\ last' = Call("insert_none", loc, None, None, None, "Ok")
    /\ removed' = TRUE
    /\ UNCHANGED << aborted, written >>

Next ==
    \/ Fill
    \/ \E loc \in FreeLocs, data \in Values : Insert(loc, data)
    \/ \E loc \in FreeLocs : At(loc)
    \/ \E loc \in FreeLocs : NodeAsRef(loc)
    \/ \E loc \in FreeLocs : Take(loc)
    \/ \E loc \in FreeLocs : InsertNone(loc)

Spec == Init /\ [][Next]_vars

(***************************************************************************)
(* Traversal: a caller builds a tree of dimension 4 or 16 by inserts of     *)
(* values not used before at locations not written before, and traverses    *)
(* it.  ops counts the inserts; written has the locations of IterLocs.      *)
(***************************************************************************)
\* number of inserts before a traversal, and of distinct values
MaxDistinct == 3

DistinctValues == 1..MaxDistinct

\* two voxels of one edge-2 region, voxels of three other octants of the
\* edge-4 region at the origin, and the far location of test_iter
IterLocs == { <<0, 0, 0>>, <<1, 0, 0>>, <<0, 2, 0>>, <<2, 2, 0>>, <<3, 3, 3>>,
              <<12, 10, 6>> }

InitTraversal ==
    /\ \E dimension \in {4, 16} :
          /\ octree = Octree_new(dimension)
          /\ last = Call("new", << dimension, 0, 0 >>, None, None, None, "Ok")
    /\ aborted = FALSE
    /\ ops = 0
    /\ filled = 0
    /\ sealed = FALSE
    /\ written = [c \in IterLocs |-> None]
    /\ removed = FALSE

InsertDistinct(loc, data) ==
    /\ Live
    /\ ops < MaxDistinct
    /\ contains_loc(unwrap(octree), loc_from_array(loc))
    /\ written[loc] = None
    /\ \A c \in IterLocs : written[c] # Some(data)
    /\ DoInsert(loc, data)
    /\ ops' = ops + 1
    /\ UNCHANGED << filled, sealed >>

\* octree.into_iter(): the tree is moved into the iterator, none is left to
\* the caller
IntoIter ==
    /\ Live
    /\ last' = Call("into_iter", << 0, 0, 0 >>, None,
                    yielded(Octree_into_iter(unwrap(octree))), None, "Ok")
    /\ octree' = None
    /\ UNCHANGED << aborted, ops, filled, sealed, written, removed >>

\* octree.iter(): the tree is borrowed
Iter ==
    /\ Live
    /\ last.op # "iter"
    /\ last' = Call("iter", << 0, 0, 0 >>, None,
                    yielded(Octree_iter(unwrap(octree))), None, "Ok")
    /\ UNCHANGED << octree, aborted, ops, filled, sealed, written, removed >>

NextTraversal ==
    \/ \E loc \in IterLocs, data \in DistinctValues : InsertDistinct(loc, data)
    \/ IntoIter
    \/ Iter

SpecTraversal == InitTraversal /\ [][NextTraversal]_vars

(***************************************************************************)
(* Vocabulary of the properties.                                            *)
(***************************************************************************)
Tree == unwrap(octree)

InBounds == { c \in AllLocs : contains_loc(Tree, c) }

OutOfBounds == AllLocs \ InBounds

PowerOfTwoTree == Live /\ Tree.dimension \in {4, 16}

IsPowerOfTwo(d) == \E k \in 0..16 : d = 2 ^ k

\* the leaf node that owns location c, as node_as_ref finds it
Owner(c) == Octree_node_as_ref(Tree, c)

(***************************************************************************)
(* C1  Round-trip: on a tree of dimension 4 or 16, in every reachable       *)
(* state, an insert(c, v) that returned Ok is followed by at(c) = Some(v).  *)
(***************************************************************************)
C1_RoundTrip ==
    (PowerOfTwoTree /\ last.op = "insert" /\ last.res = "Ok")
        => Octree_at(Tree, last.loc) = last.data

(***************************************************************************)
(* C2  Desimplification preserves values: when location c is owned by a     *)
(* collapsed leaf of edge e >= 2 holding v1, then after insert(c, v2) with  *)
(* v2 # v1, at(c) = Some(v2) and at(c') = Some(v1) for every other voxel    *)
(* c' of that edge-e region.                                                *)
(***************************************************************************)
C2_DesimplifyPreserves ==
    PowerOfTwoTree =>
        \A c \in InBounds :
            (/\ Owner(c) # None
             /\ unwrap(Owner(c)).simplified
             /\ unwrap(Owner(c)).dimension >= 2
             /\ unwrap(Owner(c)).data # None)
            => \A v2 \in Values \ { unwrap(unwrap(Owner(c)).data) } :
                   LET r == Octree_insert(Tree, c, v2)
                   IN  /\ r.res = "Ok"
                       /\ Octree_at(r.tree, c) = Some(v2)
                       /\ \A d \in Region(c, unwrap(Owner(c)).dimension) \ {c} :
                              Octree_at(r.tree, d) = unwrap(Owner(c)).data

(***************************************************************************)
(* C3  Uniform collapse rule, on a tree of dimension 16 built by inserts    *)
(* only: when v is the value last inserted at exactly 7 of the 8 voxels of  *)
(* an edge-2 region, a filled voxel is owned by a leaf of edge 1; when it   *)
(* is the value last inserted at all 8, the voxels are owned by a leaf of   *)
(* edge >= 2 holding v; when it is so for all 64 voxels of an edge-4        *)
(* region, they are owned by a leaf of edge 4 holding v.                    *)
(***************************************************************************)
WrittenWith(c, edge, v) == { d \in Region(c, edge) : written[d] = Some(v) }

C3_UniformCollapse ==
    (Live /\ Tree.dimension = 16 /\ ~removed) =>
        \A c \in InBounds, v \in Values :
            /\ (Cardinality(WrittenWith(c, 2, v)) = 7 /\ written[c] = Some(v))
                   => (/\ Owner(c) # None
                       /\ unwrap(Owner(c)).leaf
                       /\ unwrap(Owner(c)).dimension = 1)
            /\ Cardinality(WrittenWith(c, 2, v)) = 8
                   => (/\ Owner(c) # None
                       /\ unwrap(Owner(c)).leaf
                       /\ unwrap(Owner(c)).dimension >= 2
                       /\ unwrap(Owner(c)).data = Some(v))
            /\ Cardinality(WrittenWith(c, 4, v)) = 64
                   => (/\ Owner(c) # None
                       /\ unwrap(Owner(c)).leaf
                       /\ unwrap(Owner(c)).dimension = 4
                       /\ unwrap(Owner(c)).data = Some(v))

(***************************************************************************)
(* C4  Removal: in every reachable state and for every in-bounds c,         *)
(* take(c) returns what at(c) returns in that state, at(c) is None right    *)
(* after it, and a second take(c) returns None.                             *)
(***************************************************************************)
C4_Removal ==
    Live =>
        \A c \in ProbeLocs \cap InBounds :
            LET r == Octree_take(Tree, c)
            IN  /\ r.ret = Octree_at(Tree, c)
                /\ Octree_at(r.tree, c) = None
                /\ Octree_take(r.tree, c).ret = None

\* a take has removed a value, and the location reads None
C4_Witness ==
    /\ Live
    /\ last.op = "take"
    /\ last.ret # None
    /\ last.loc \in InBounds
    /\ Octree_at(Tree, last.loc) = None

(***************************************************************************)
(* C5  insert_none(c) clears only c: for every other in-bounds c', at(c')   *)
(* is the same before and after insert_none(c).                             *)
(***************************************************************************)
C5_InsertNoneFrame ==
    PowerOfTwoTree =>
        \A c \in InBounds :
            \A d \in InBounds \ {c} :
                Octree_at(Octree_insert_none(Tree, c), d) = Octree_at(Tree, d)

(***************************************************************************)
(* C6  Insert never aborts: every insert returns, with Ok when the          *)
(* location is in bounds and with the out-of-bounds error otherwise.        *)
(***************************************************************************)
C6_InsertNeverAborts ==
    (octree # None /\ Tree.dimension \in {4, 16} /\ last.op = "insert")
        => /\ last.res \in {"Ok", "Err"}
           /\ last.loc \in InBounds => last.res = "Ok"

(***************************************************************************)
(* C7  Overwrite: when the unit voxel node of c exists, insert(c, v) sets   *)
(* its data, so at(c) = Some(v) afterwards.                                 *)
(***************************************************************************)
C7_Overwrite ==
    PowerOfTwoTree =>
        \A c \in InBounds :
            (Owner(c) # None /\ unwrap(Owner(c)).dimension = 1)
            => \A v \in Values :
                   LET r == Octree_insert(Tree, c, v)
                   IN  r.res = "Ok" => Octree_at(r.tree, c) = Some(v)

(***************************************************************************)
(* C8  Bounds check on insert: with a component >= D the insert returns the *)
(* error and leaves the tree unchanged; with all components < D it returns  *)
(* Ok.                                                                      *)
(***************************************************************************)
C8_InsertBounds ==
    PowerOfTwoTree =>
        \A c \in AllLocs, v \in Values :
            LET r == Octree_insert(Tree, c, v)
            IN  IF c \in OutOfBounds
                THEN r.res = "Err" /\ r.tree = Tree
                ELSE r.res = "Ok"

(***************************************************************************)
(* C9  Lookup out of range: at(c) with a component >= D returns None.       *)
(***************************************************************************)
C9_AtOutOfRange ==
    PowerOfTwoTree => \A c \in OutOfBounds : Octree_at(Tree, c) = None

(***************************************************************************)
(* C10 Construction validity: Octree::new(d) succeeds exactly when d is a   *)
(* power of two, and the tree it returns has dimension d and an empty leaf  *)
(* root of edge d.                                                          *)
(***************************************************************************)
C10_ConstructionValidity ==
    last.op = "new" =>
        /\ (octree # None) <=> IsPowerOfTwo(last.loc[1])
        /\ octree # None =>
               /\ Tree.dimension = last.loc[1]
               /\ Tree.root = construct_root(last.loc[1])

(***************************************************************************)
(* C11 Termination within max_depth: on every tree construction accepts and *)
(* for every in-bounds c, insert(c, v) ends its recursion, visits at most   *)
(* max_depth nodes and visits the node of edge 2 last; at(c) visits at most *)
(* max_depth nodes.                                                         *)
(***************************************************************************)
C11_TerminationWithinMaxDepth ==
    Live =>
        \A c \in ProbeLocs \cap InBounds :
            /\ \A v \in Values :
                   /\ Octree_insert(Tree, c, v).res # "overflow"
                   /\ \E p \in { OctreeNode_insert_path(Tree.root, loc_from_array(c), v) } :
                          /\ Len(p) <= Tree.max_depth
                          /\ p[Len(p)] = 2
            /\ Len(OctreeNode_at_path(Tree.root, loc_from_array(c))) <= Tree.max_depth

(***************************************************************************)
(* C12 Traversal completeness: on a fresh tree of dimension 4 or 16, after  *)
(* N inserts of pairwise distinct values at pairwise distinct in-bounds     *)
(* locations, the consuming and the non-consuming traversal each yield      *)
(* exactly N values, every inserted value once.                             *)
(***************************************************************************)
WrittenLocs == { c \in DOMAIN written : written[c] # None }

DistinctWrites ==
    /\ Cardinality(WrittenLocs) = ops
    /\ \A c, d \in WrittenLocs : written[c] = written[d] => c = d

Occurrences(seq, v) == Cardinality({ i \in 1..Len(seq) : seq[i] = v })

C12_TraversalCompleteness ==
    (PowerOfTwoTree /\ DistinctWrites) =>
        \A it \in { yielded(Octree_into_iter(Tree)), yielded(Octree_iter(Tree)) } :
            /\ Len(it) = ops
            /\ \A v \in DistinctValues :
                   Occurrences(it, v) =
                       Cardinality({ c \in WrittenLocs : written[c] = Some(v) })

\* a traversal after MaxDistinct inserts has yielded MaxDistinct values
C12_Witness ==
    /\ last.op = "into_iter"
    /\ ops = MaxDistinct
    /\ Len(last.ret) = MaxDistinct
    /\ DistinctWrites

(***************************************************************************)
(* C13 Clearing: in every reachable state and for every in-bounds c, when   *)
(* insert(c, v) has returned Ok and insert_none(c) follows it, at(c) is     *)
(* None; a call of insert_none returns.                                     *)
(***************************************************************************)
C13_Clearing ==
    /\ Live =>
           \A c \in FreeLocs \cap InBounds,
              v \in Values :
               \E r \in { Octree_insert(Tree, c, v) } :
                   r.res = "Ok" =>
                       Octree_at(Octree_insert_none(r.tree, c), c) = None
    /\ last.op = "insert_none" => (last.res = "Ok" /\ ~aborted)

\* insert_none has followed the fill's insert at the same location, which
\* reads None
C13_Witness ==
    /\ Live
    /\ last.op = "insert_none"
    /\ filled >= 1
    /\ last.loc = FillLoc(filled - 1)
    /\ written[last.loc] # None
    /\ Octree_at(Tree, last.loc) = None

(***************************************************************************)
(* C14 Traversal order: for a tree built by inserts of distinct values at   *)
(* distinct locations, a value whose location has the lower octant index    *)
(* path from the root (root octant most significant) is yielded before a    *)
(* value whose location has the higher one.                                 *)
(***************************************************************************)
\* the octants get_child_loc selects for loc from a node of the given
\* dimension down to the node of dimension 2
RECURSIVE OctantPath(_, _)
OctantPath(dimension, loc) ==
    IF dimension < 2
    THEN << >>
    ELSE The({ << g.child >> \o OctantPath(dimension \div 2, g.loc)
               : g \in { get_child_loc([dimension |-> dimension], loc) } })

\* a path read as a number in base 8, first octant most significant
RECURSIVE PathIndex(_)
PathIndex(path) ==
    IF path = << >>
    THEN 0
    ELSE 8 * PathIndex(SubSeq(path, 1, Len(path) - 1)) + path[Len(path)]

LocIndex(c) == PathIndex(OctantPath(Tree.dimension, loc_from_array(c)))

C14_TraversalOrder ==
    (PowerOfTwoTree /\ DistinctWrites) =>
        \A it \in { yielded(Octree_into_iter(Tree)), yielded(Octree_iter(Tree)) } :
            \A i, j \in 1..Len(it) :
                i < j =>
                    \A ci, cj \in WrittenLocs :
                        (written[ci] = Some(it[i]) /\ written[cj] = Some(it[j]))
                            => LocIndex(ci) < LocIndex(cj)

\* a traversal has yielded the value of a lower-indexed octant before that
\* of its higher-indexed sibling
C14_Witness ==
    /\ Live
    /\ last.op = "iter"
    /\ DistinctWrites
    /\ written[<<2, 2, 0>>] # None
    /\ written[<<0, 2, 0>>] # None
    /\ LocIndex(<<2, 2, 0>>) < LocIndex(<<0, 2, 0>>)
    /\ \E i, j \in 1..Len(last.ret) :
           /\ i < j
           /\ Some(last.ret[i]) = written[<<2, 2, 0>>]
           /\ Some(last.ret[j]) = written[<<0, 2, 0>>]

(***************************************************************************)
(* C15 Collapsed-flag invariant: in every state reachable by insert, take   *)
(* and insert_none, every node of the tree whose simplified flag is true    *)
(* is a leaf and has data present.                                          *)
(***************************************************************************)
\* the node n and every node below it
RECURSIVE Nodes(_)
Nodes(n) ==
    {n} \cup UNION { Nodes(unwrap(n.children[i]))
                     : i \in { j \in 1..8 : is_some(n.children[j]) } }

C15_CollapsedFlag ==
    PowerOfTwoTree =>
        \A n \in Nodes(Tree.root) :
            n.simplified => (n.leaf /\ n.data # None)

(***************************************************************************)
(* C16 Leaf/internal invariant: in every state reachable by insert, take    *)
(* and insert_none, every node with the leaf flag true has its 8 child      *)
(* slots None, and every node with the leaf flag false has data None.       *)
(***************************************************************************)
C16_LeafInternal ==
    PowerOfTwoTree =>
        \A n \in Nodes(Tree.root) :
            /\ n.leaf => n.children = no_children
            /\ ~n.leaf => n.data = None

(***************************************************************************)
(* C17 Same-value write into a collapsed node is a no-op: when c is owned   *)
(* by a collapsed leaf holding v, insert(c, v) returns Ok and leaves that   *)
(* node (flags, data and 8 child slots) as it was.                          *)
(***************************************************************************)
C17_SameValueNoOp ==
    PowerOfTwoTree =>
        \A c \in ProbeLocs \cap InBounds :
            (/\ Owner(c) # None
             /\ unwrap(Owner(c)).simplified
             /\ unwrap(Owner(c)).data # None)
            => \E r \in { Octree_insert(Tree, c, unwrap(unwrap(Owner(c)).data)) } :
                   /\ r.res = "Ok"
                   /\ Octree_node_as_ref(r.tree, c) = Owner(c)

(***************************************************************************)
(* C18 Desimplification rebuilds siblings as collapsed regions: when c is   *)
(* owned by a collapsed leaf of edge e >= 4 holding v1 and insert(c, v2)    *)
(* with v2 # v1 expands it, every voxel d of the 7 other octants is owned   *)
(* by a leaf of edge e/2 that is marked collapsed and holds v1, and after   *)
(* a later insert(d, v2) the other voxels of d's octant still read v1.      *)
(***************************************************************************)
C18_DesimplifyRebuildsSiblings ==
    PowerOfTwoTree =>
        \A c \in ProbeLocs \cap InBounds :
            (/\ Owner(c) # None
             /\ unwrap(Owner(c)).simplified
             /\ unwrap(Owner(c)).dimension >= 4
             /\ unwrap(Owner(c)).data # None)
            => \A v2 \in Values \ { unwrap(unwrap(Owner(c)).data) } :
                 \E r \in { Octree_insert(Tree, c, v2) },
                    e \in { unwrap(Owner(c)).dimension } :
                   \A d \in Region(c, e) \ Region(c, e \div 2) :
                     /\ \E s \in { Octree_node_as_ref(r.tree, d) } :
                            /\ s # None
                            /\ unwrap(s).leaf
                            /\ unwrap(s).dimension = e \div 2
                            /\ unwrap(s).simplified
                            /\ unwrap(s).data = unwrap(Owner(c)).data
                     /\ \E r2 \in { Octree_insert(r.tree, d, v2) } :
                            \A d2 \in Region(d, e \div 2) \ {d} :
                                Octree_at(r2.tree, d2) = unwrap(Owner(c)).data

(***************************************************************************)
(* C19 Octant mapping.                                                      *)
(***************************************************************************)
\* topA = 1 iff axis A of the coordinate is >= half the edge
Top(edge, loc, axis) == IF loc[axis] >= edge \div 2 THEN 1 ELSE 0

\* the edges of the nodes of a tree: the dimension, halved level by level
Edges == { Tree.dimension \div (2 ^ k) : k \in 0..4 } \ {0}

\* the numbering the claim states
ZyxOctant(edge, loc) ==
    4 * Top(edge, loc, 3) + 2 * Top(edge, loc, 2) + Top(edge, loc, 1)

\* z-major, then y, and within the upper y half the x halves swapped
\* (left, right, right, left)
RingOctant(edge, loc) ==
    4 * Top(edge, loc, 3) + 2 * Top(edge, loc, 2)
    + (IF Top(edge, loc, 2) = 1 THEN 1 - Top(edge, loc, 1) ELSE Top(edge, loc, 1))

\* the leaf reached from node n by following slot RingOctant at every level,
\* the coordinate reduced by half the edge on every upper axis
RECURSIVE RingWalk(_, _)
RingWalk(n, loc) ==
    The({ IF child = None THEN None
          ELSE IF unwrap(child).leaf THEN child
          ELSE RingWalk(unwrap(child),
                        [a \in 1..3 |-> loc[a] - Top(n.dimension, loc, a) * (n.dimension \div 2)])
          : child \in { n.children[RingOctant(n.dimension, loc) + 1] } })

\* C19 as stated: at a node of edge e, get_child_loc returns
\* 4 * topZ + 2 * topY + topX for every coordinate.
C19_OctantMapping ==
    PowerOfTwoTree =>
        \A e \in Edges, c \in ProbeLocs \cup { last.loc } :
            get_child_loc([dimension |-> e], c).child = ZyxOctant(e, c)

\* C19 amended: at a node of edge e, get_child_loc returns
\* 4 * topZ + 2 * topY + (topX if topY = 0, 1 - topX if topY = 1), the
\* all-lower triple mapped to 0; node_as_ref, at and take find the leaf that
\* this numbering leads to, and insert puts the voxel where it leads to
\* (unless the root has collapsed into a leaf).
C19_RingOctantMapping ==
    PowerOfTwoTree =>
        /\ \A e \in Edges, c \in ProbeLocs \cup { last.loc } :
               /\ get_child_loc([dimension |-> e], c).child = RingOctant(e, c)
               /\ (\A a \in 1..3 : Top(e, c, a) = 0)
                      => get_child_loc([dimension |-> e], c).child = 0
        /\ \A c \in (FreeLocs \cup { last.loc }) \cap InBounds :
               \E leaf \in { RingWalk(Tree.root, c) } :
                   /\ Octree_node_as_ref(Tree, c) = leaf
                   /\ Octree_at(Tree, c) = (IF leaf = None THEN None ELSE unwrap(leaf).data)
                   /\ Octree_take(Tree, c).ret = (IF leaf = None THEN None ELSE unwrap(leaf).data)
        /\ (last.op = "insert" /\ last.res = "Ok" /\ ~Tree.root.leaf)
               => RingWalk(Tree.root, last.loc) # None

\* an insert has put a voxel with lower x and upper y into slot 3 of its
\* edge-2 node, where the claim's numbering has 2
C19_Witness ==
    /\ PowerOfTwoTree
    /\ last.op = "insert"
    /\ last.res = "Ok"
    /\ last.loc = <<0, 1, 0>>
    /\ 2 \in Edges
    /\ RingOctant(2, last.loc) = BaseFrontLeft
    /\ ZyxOctant(2, last.loc) = BaseFrontRight
    /\ RingWalk(Tree.root, last.loc) # None
    /\ unwrap(RingWalk(Tree.root, last.loc)).data = last.data

(***************************************************************************)
(* C20 Coordinate translation never underflows: in every step of a descent, *)
(* for every coordinate (in bounds or not), an axis is reduced by half the  *)
(* node's edge only when it is >= half, so that no subtraction goes below   *)
(* 0; and for an in-bounds coordinate on a tree of dimension 4 or 16 every  *)
(* component is less than the edge of the node visited, before the step,    *)
(* and less than the edge of its child after it.                            *)
(***************************************************************************)
\* the steps of a descent from a node of the given dimension: the edge of the
\* node visited, the coordinate get_child_loc is called with and the one it
\* leaves
RECURSIVE Descent(_, _)
Descent(dimension, loc) ==
    IF dimension < 1
    THEN << >>
    ELSE The({ << [edge |-> dimension, before |-> loc, after |-> g.loc] >>
               \o (IF dimension = 2 THEN << >> ELSE Descent(dimension \div 2, g.loc))
               : g \in { get_child_loc([dimension |-> dimension], loc) } })

C21_InsertFrame ==
    (PowerOfTwoTree /\ ~removed) =>
        \A c \in FreeLocs \cap InBounds, v \in Values :
            \E r \in { Octree_insert(Tree, c, v) } :
                r.res = "Ok" =>
                    \A d \in InBounds \ {c} :
                        Octree_at(r.tree, d) = Octree_at(Tree, d)

(***************************************************************************)
(* C22 Take frame: in every reachable state of a tree of dimension 4 or 16, *)
(* take(c) leaves at(c') as it was for every in-bounds c' other than c,     *)
(* and changes no leaf flag, simplified flag or child slot of the tree.     *)
(***************************************************************************)
\* a node and the nodes below it without their data
RECURSIVE Shape(_)
Shape(n) ==
    [dimension  |-> n.dimension,
     leaf       |-> n.leaf,
     simplified |-> n.simplified,
     children   |-> [i \in 1..8 |->
                        IF n.children[i] = None
                        THEN None
                        ELSE Some(Shape(unwrap(n.children[i])))]]

C22_TakeFrame ==
    PowerOfTwoTree =>
        \A c \in ProbeLocs \cap InBounds :
            \E r \in { Octree_take(Tree, c) } :
                /\ \A d \in InBounds \ {c} :
                       Octree_at(r.tree, d) = Octree_at(Tree, d)
                /\ Shape(r.tree.root) = Shape(Tree.root)

(***************************************************************************)
(* C23 Collapse is transparent to lookup: after an insert(c, v) that        *)
(* returned Ok on a tree of dimension 4 or 16, when the root is a collapsed *)
(* leaf holding v, at reads Some(v) at every in-bounds coordinate, and when *)
(* c is owned by a collapsed leaf holding v, at reads Some(v) at every      *)
(* coordinate of that leaf's region.                                        *)
(***************************************************************************)
C23_CollapseTransparent ==
    (PowerOfTwoTree /\ last.op = "insert" /\ last.res = "Ok") =>
        /\ (Tree.root.simplified /\ Tree.root.data = last.data)
               => \A d \in InBounds : Octree_at(Tree, d) = last.data
        /\ (/\ Owner(last.loc) # None
            /\ unwrap(Owner(last.loc)).simplified
            /\ unwrap(Owner(last.loc)).data = last.data)
               => \A d \in Region(last.loc, unwrap(Owner(last.loc)).dimension) :
                      Octree_at(Tree, d) = last.data

(***************************************************************************)
(* C24 Addressing is injective: in every tree Octree::new accepts, two      *)
(* distinct in-bounds coordinates have distinct octant paths, and on the    *)
(* fresh tree insert(c1, v1) followed by insert(c2, v2) with c1 # c2        *)
(* returns Ok twice and gives at(c1) = Some(v1) and at(c2) = Some(v2).      *)
(***************************************************************************)
\* the caller's locations and the two highest x coordinates of a tree of
\* dimension 9
PairLocs == FreeLocs \cup { <<7, 0, 0>>, <<8, 0, 0>> }

C24_AddressingInjective ==
    (Live /\ last.op = "new") =>
        \A c1, c2 \in { c \in PairLocs : contains_loc(Tree, loc_from_array(c)) } :
            c1 # c2 =>
                /\ OctantPath(Tree.dimension, loc_from_array(c1))
                       # OctantPath(Tree.dimension, loc_from_array(c2))
                /\ \A v1, v2 \in Values :
                       \E r1 \in { Octree_insert(Tree, c1, v1) } :
                           /\ r1.res = "Ok"
                           /\ \E r2 \in { Octree_insert(r1.tree, c2, v2) } :
                                  /\ r2.res = "Ok"
                                  /\ Octree_at(r2.tree, c1) = Some(v1)
                                  /\ Octree_at(r2.tree, c2) = Some(v2)

====
